---- MODULE Spec2Model ----
(***************************************************************************)
(* ReviewTracker: the work_items table and the operations on it.           *)
(*   editorial_tracker.py : add_item, list_items, update_item, export_csv  *)
(*   api/index.py         : create_item, update_item_endpoint, delete_item *)
(* A row is a record with the columns of WorkItem.  Text values are drawn  *)
(* from Strs; NULL / None is the value Null, which is not a member of Strs.*)
(* Timestamps are the integer reading of the clock: now_timestamp()        *)
(* formats the time as "%Y-%m-%d %H:%M:%S", whose string order is the      *)
(* order of the readings.                                                  *)
(***************************************************************************)
EXTENDS Integers, Sequences, FiniteSets, TLC

VARIABLES
    engine,   \* dialect of DATABASE_URL: "sqlite" or "postgresql"
    store,    \* the rows of work_items
    seq,      \* last value handed out by the id sequence (postgresql)
    clock,    \* current reading of datetime.now()
    ops,      \* number of add, update and delete calls made so far
    added,    \* arguments of the add_item calls made while only adds were made
    result,   \* the last call: its name, arguments and outcome
    deleted,  \* the ids of the rows delete_item has removed
    file,     \* the text export_csv has written to its output path
    sess      \* the open sessions of concurrent update calls

vars == <<engine, store, seq, clock, ops, added, result, deleted, file, sess>>

\* ------------------------------------------------------------------ bounds
MaxOps == 3
MaxClock == 1
MaxId == 2
MaxRows == 2

\* ------------------------------------------------------------------ values
Null == "<null>"

Strs == {"", "a", "b", "invited"}

\* position of a text value in the collation order of the column (code points)
Rank(s) ==
    CASE s = "" -> 0
      [] s = "a" -> 1
      [] s = "b" -> 2
      [] s = "invited" -> 3

\* Python truthiness of an Optional[str]
Truthy(v) == v # Null /\ v # ""

DataFields ==
    {"title", "reference_id", "role", "venue", "due_date", "status", "decision", "notes"}

OptionalFields == DataFields \ {"title"}

IntColumns == {"id", "created_at", "updated_at"}

Columns == IntColumns \cup DataFields

\* the declared default of the status column
StatusDefault == "invited"

Engines == {"sqlite", "postgresql"}

Ids == {r.id : r \in store}

Max(S) == CHOOSE x \in S : \A y \in S : y <= x

\* session.get(WorkItem, item_id)
Get(item_id) == {r \in store : r.id = item_id}

NoArgs == [k \in {} |-> Null]

Call(op, outcome, item_id, args, rows) ==
    [op |-> op, outcome |-> outcome, item_id |-> item_id, args |-> args, rows |-> rows]

\* ---------------------------------------------------------------- add_item
\* Inserted with notes not passed on to the row
Inserted_NoNotes(args, id, ts1, ts2) ==
    [id |-> id,
     title |-> args.title,
     reference_id |-> args.reference_id,
     role |-> args.role,
     venue |-> args.venue,
     due_date |-> args.due_date,
     status |-> IF args.status = Null THEN StatusDefault ELSE args.status,
     decision |-> args.decision,
     notes |-> Null,
     created_at |-> ts1,
     updated_at |-> ts2]

\* A column whose value is None is left out of the INSERT, so a column with a
\* declared default receives the default; status is the only such column.
Inserted(args, id, ts1, ts2) ==
    [id |-> id,
     title |-> args.title,
     reference_id |-> args.reference_id,
     role |-> args.role,
     venue |-> args.venue,
     due_date |-> args.due_date,
     status |-> IF args.status = Null THEN StatusDefault ELSE args.status,
     decision |-> args.decision,
     notes |-> args.notes,
     created_at |-> ts1,
     updated_at |-> ts2]

\* the id the engine gives a row inserted without one: sqlite takes the largest
\* rowid plus one, postgresql the next value of the sequence
NewId == IF engine = "sqlite"
         THEN (IF store = {} THEN 1 ELSE Max(Ids) + 1)
         ELSE seq + 1

Titles == {"", "a"}

AllNull(t) ==
    [title |-> t, reference_id |-> Null, role |-> Null, venue |-> Null,
     due_date |-> Null, status |-> Null, decision |-> Null, notes |-> Null]

\* arguments of add_item: only a title given (the empty title included), or
\* every field given
AddInputs ==
    {AllNull(t) : t \in Titles}
    \cup {[title |-> "a", reference_id |-> "b", role |-> "a", venue |-> "b",
           due_date |-> "a", status |-> "b", decision |-> "", notes |-> "b"]}

Insert(op, args) ==
    /\ ops < MaxOps
    /\ ops' = ops + 1
    /\ NewId <= MaxId
    /\ seq' = IF engine = "postgresql" THEN NewId ELSE seq
    /\ IF NewId \in Ids
       THEN /\ store' = store
            /\ added' = added
            /\ result' = Call(op, "IntegrityError", NewId, args, <<>>)
       ELSE /\ store' = store \cup {Inserted(args, NewId, clock, clock)}
            /\ added' = IF added.only THEN [added EXCEPT !.args = Append(@, args)] ELSE added
            /\ result' = Call(op, "ok", NewId, args, <<>>)
    /\ UNCHANGED <<engine, clock, deleted, file, sess>>

add_item == \E args \in AddInputs : Insert("add_item", args)

\* --------------------------------------------------- create_item (POST /api/items)
\* ItemCreate: a title, every other field left at its default (status "invited")
CreateBodies == {[AllNull(t) EXCEPT !.status = StatusDefault] : t \in Titles}

create_item == \E body \in CreateBodies : Insert("create_item", body)

\* ------------------------------------------------------------- update_item
\* hasattr(item, key): the columns of the row
HasAttr(key) == key \in Columns

Dict(keys, v) == [k \in keys |-> v]

\* the ids that update and delete calls are given
ItemIds == {1, 2}

\* keyword arguments of update_item
UpdateInputs ==
    {NoArgs, Dict(DataFields, Null), Dict({"bogus"}, "b"),
     Dict({"title"}, "b"), Dict({"title"}, ""), Dict({"notes"}, "b"),
     [title |-> "b", status |-> "b"], [title |-> Null, status |-> "b"],
     Dict({"created_at"}, MaxClock + 1), Dict({"updated_at"}, MaxClock + 1)}
    \cup {Dict({"id"}, i) : i \in ItemIds}

\* value is None; the values given for id and the timestamps are never None
IsNone(key, value) == key \notin IntColumns /\ value = Null

\* the keys the loop applies
Applied(fields) == {k \in DOMAIN fields : ~IsNone(k, fields[k]) /\ HasAttr(k)}

\* Updated with the None test left out of the loop
Updated_SetsNone(item, fields) ==
    [k \in Columns |->
        IF k = "updated_at" THEN clock
        ELSE IF k \in DOMAIN fields THEN fields[k]
        ELSE item[k]]

\* the row after the setattr loop and the refresh of updated_at
Updated(item, fields) ==
    [k \in Columns |->
        IF k = "updated_at" THEN clock
        ELSE IF k \in Applied(fields) THEN fields[k]
        ELSE item[k]]

\* commit of a changed row: the primary key stays unique
Commit(op, item, new, args) ==
    IF new.id # item.id /\ new.id \in Ids
    THEN /\ store' = store
         /\ result' = Call(op, "IntegrityError", item.id, args, <<>>)
    ELSE /\ store' = (store \ {item}) \cup {new}
         /\ result' = Call(op, "ok", item.id, args, <<>>)

\* update_item with the raise for a missing row left out
update_item_NoRaise(item_id, fields) ==
    /\ ops < MaxOps
    /\ ops' = ops + 1
    /\ added' = [only |-> FALSE, args |-> <<>>]
    /\ IF Get(item_id) = {} \/ Applied(fields) = {}
       THEN /\ store' = store
            /\ result' = Call("update_item", "ok", item_id, fields, <<>>)
       ELSE LET item == CHOOSE r \in Get(item_id) : TRUE IN
            Commit("update_item", item, Updated(item, fields), fields)
    /\ UNCHANGED <<engine, seq, clock, deleted, file, sess>>

update_item(item_id, fields) ==
    /\ ops < MaxOps
    /\ ops' = ops + 1
    /\ added' = [only |-> FALSE, args |-> <<>>]
    /\ IF Get(item_id) = {}
       THEN /\ store' = store
            /\ result' = Call("update_item", "NotFound", item_id, fields, <<>>)
       ELSE LET item == CHOOSE r \in Get(item_id) : TRUE IN
            IF Applied(fields) = {}
            THEN /\ store' = store
                 /\ result' = Call("update_item", "ok", item_id, fields, <<>>)
            ELSE Commit("update_item", item, Updated(item, fields), fields)
    /\ UNCHANGED <<engine, seq, clock, deleted, file, sess>>

UpdateItem == \E item_id \in ItemIds, fields \in UpdateInputs : update_item(item_id, fields)

\* ------------------------------------ update_item_endpoint (PATCH /api/items/{id})
\* ItemUpdate bodies: the fields that were set, null included
UpdateBodies == {NoArgs, Dict({"title"}, "b"), Dict({"notes"}, Null), Dict({"venue"}, "b")}

\* the row after setattr of every set field and the refresh of updated_at
Patched(item, body) ==
    [k \in Columns |->
        IF k = "updated_at" THEN clock
        ELSE IF k \in DOMAIN body THEN body[k]
        ELSE item[k]]

update_item_endpoint(item_id, body) ==
    /\ ops < MaxOps
    /\ ops' = ops + 1
    /\ added' = [only |-> FALSE, args |-> <<>>]
    /\ IF Get(item_id) = {}
       THEN /\ store' = store
            /\ result' = Call("update_item_endpoint", "NotFound", item_id, body, <<>>)
       ELSE LET item == CHOOSE r \in Get(item_id) : TRUE IN
            Commit("update_item_endpoint", item, Patched(item, body), body)
    /\ UNCHANGED <<engine, seq, clock, deleted, file, sess>>

UpdateItemEndpoint ==
    \E item_id \in ItemIds, body \in UpdateBodies : update_item_endpoint(item_id, body)

\* ---------------------------------------------- delete_item (DELETE /api/items/{id})
delete_item(item_id) ==
    /\ ops < MaxOps
    /\ ops' = ops + 1
    /\ added' = [only |-> FALSE, args |-> <<>>]
    /\ IF Get(item_id) = {}
       THEN /\ store' = store
            /\ result' = Call("delete_item", "NotFound", item_id, NoArgs, <<>>)
       ELSE /\ store' = store \ Get(item_id)
            /\ result' = Call("delete_item", "ok", item_id, NoArgs, <<>>)
    /\ deleted' = IF Get(item_id) = {} THEN deleted ELSE deleted \cup {item_id}
    /\ UNCHANGED <<engine, seq, clock, file, sess>>

DeleteItem == \E item_id \in ItemIds : delete_item(item_id)

\* -------------------------------------------------------------- list_items
\* attributes of the class WorkItem that are not columns
ClassAttrs == {"__tablename__"}

\* getattr(WorkItem, sort_by, WorkItem.due_date)
OrderColumn(sort_by) ==
    IF sort_by \in Columns \cup ClassAttrs THEN sort_by ELSE "due_date"

\* str.upper() on the sort orders that are passed
Upper(s) ==
    CASE s = "asc" -> "ASC"
      [] s = "desc" -> "DESC"
      [] OTHER -> s

\* position of a row's value in the ascending order of a column: sqlite puts
\* NULL before every value, postgresql after every value
SortKey(r, col) ==
    IF col \in IntColumns THEN r[col]
    ELSE IF r[col] = Null THEN (IF engine = "sqlite" THEN -1 ELSE Cardinality(Strs))
    ELSE Rank(r[col])

\* Before with desc() applied to the id as well
Before_IdDesc(r1, r2, col, desc) ==
    IF SortKey(r1, col) # SortKey(r2, col)
    THEN (IF desc THEN SortKey(r1, col) > SortKey(r2, col)
                  ELSE SortKey(r1, col) < SortKey(r2, col))
    ELSE (IF desc THEN r1.id > r2.id ELSE r1.id < r2.id)

\* ORDER BY col ASC|DESC, id
Before(r1, r2, col, desc) ==
    IF SortKey(r1, col) # SortKey(r2, col)
    THEN (IF desc THEN SortKey(r1, col) > SortKey(r2, col)
                  ELSE SortKey(r1, col) < SortKey(r2, col))
    ELSE r1.id < r2.id

RECURSIVE OrderBy(_, _, _)
OrderBy(rows, col, desc) ==
    IF rows = {} THEN <<>>
    ELSE LET first == CHOOSE r \in rows : \A o \in rows \ {r} : Before(r, o, col, desc)
         IN <<first>> \o OrderBy(rows \ {first}, col, desc)

\* Where with the comparison made on the wrong column
Where_Title(status) ==
    IF Truthy(status) THEN {r \in store : r.title = status} ELSE store

\* if status: statement.where(WorkItem.status == status)
Where(status) ==
    IF Truthy(status) THEN {r \in store : r.status = status} ELSE store

ListArgs(status, sort_by, sort_order) ==
    [status |-> status, sort_by |-> sort_by, sort_order |-> sort_order]

list_items(status, sort_by, sort_order) ==
    /\ result' =
          IF OrderColumn(sort_by) \in ClassAttrs
          THEN Call("list_items", "AttributeError", 0,
                    ListArgs(status, sort_by, sort_order), <<>>)
          ELSE Call("list_items", "ok", 0, ListArgs(status, sort_by, sort_order),
                    OrderBy(Where(status), OrderColumn(sort_by), Upper(sort_order) = "DESC"))
    /\ UNCHANGED <<engine, store, seq, clock, ops, added, deleted, file, sess>>

\* list_items(session, status=None) with the default sort_by and sort_order
ListDefault == list_items(Null, "due_date", "ASC")

StatusFilters == {Null, "", "a", "b"}

SortBys == {"title", "venue", "due_date", "reference_id", "status",
            "id", "notes", "created_at", "bogus", "__tablename__"}

SortOrders == {"ASC", "DESC", "desc"}

ListItems ==
    \E status \in StatusFilters, sort_by \in SortBys, sort_order \in SortOrders :
        list_items(status, sort_by, sort_order)

\* -------------------------------------------------------------- export_csv
\* The text of a value and of the file is a sequence of pieces: the delimiter,
\* the quote character, carriage return and line feed one by one, and any
\* other run of characters as one piece.
Pieces(s) ==
    CASE s = "" -> <<>>
      [] s = "a,b" -> <<"a", ",", "b">>
      [] s = "a\"b" -> <<"a", "\"", "b">>
      [] s = "a\nb" -> <<"a", "\n", "b">>
      [] s = "a\rb" -> <<"a", "\r", "b">>
      [] OTHER -> <<s>>

\* the field names of WorkItem in declaration order: model_dump().keys()
Headers ==
    <<"id", "title", "reference_id", "role", "venue", "due_date", "status",
      "decision", "notes", "created_at", "updated_at">>

\* csv.writer's text of a value: None is the empty string, anything else str()
Str(value, col) ==
    IF col \in IntColumns THEN <<ToString(value)>>
    ELSE IF value = Null THEN <<>>
    ELSE Pieces(value)

\* the characters QUOTE_MINIMAL quotes a field for
Special == {",", "\"", "\r", "\n"}

RECURSIVE Doubled(_)
Doubled(p) ==
    IF p = <<>> THEN <<>>
    ELSE (IF Head(p) = "\"" THEN <<"\"", "\"">> ELSE <<Head(p)>>) \o Doubled(Tail(p))

Field(p) ==
    IF \E i \in 1..Len(p) : p[i] \in Special
    THEN <<"\"">> \o Doubled(p) \o <<"\"">>
    ELSE p

RECURSIVE Join(_)
Join(cells) ==
    IF Len(cells) = 1 THEN Field(cells[1])
    ELSE Field(Head(cells)) \o <<",">> \o Join(Tail(cells))

\* writer.writerow(cells), with the line terminator of the excel dialect
writerow(cells) == Join(cells) \o <<"\r", "\n">>

HeaderCells == [i \in 1..Len(Headers) |-> <<Headers[i]>>]

Cells(item) == [i \in 1..Len(Headers) |-> Str(item[Headers[i]], Headers[i])]

RECURSIVE WriteRows(_)
WriteRows(items) ==
    IF items = <<>> THEN <<>>
    ELSE writerow(Cells(Head(items))) \o WriteRows(Tail(items))

\* select(WorkItem).order_by(WorkItem.due_date): the rows in ascending due_date,
\* rows of equal due_date in any order
Selected ==
    {items \in [1..Cardinality(store) -> store] :
        /\ \A i, j \in 1..Cardinality(store) : i # j => items[i] # items[j]
        /\ \A i, j \in 1..Cardinality(store) :
              i < j => SortKey(items[i], "due_date") <= SortKey(items[j], "due_date")}

export_csv ==
    /\ \E items \in Selected :
          /\ file' = IF items = <<>> THEN file
                     ELSE writerow(HeaderCells) \o WriteRows(items)
          /\ result' = Call("export_csv", "ok", 0, NoArgs, items)
    /\ UNCHANGED <<engine, store, seq, clock, ops, added, deleted, sess>>

\* Reading the file back: open(output_path, "r", encoding="utf-8") reads in
\* universal-newlines mode, which hands "\r\n" and "\r" to the reader as "\n".
RECURSIVE Universal(_)
Universal(text) ==
    IF text = <<>> THEN <<>>
    ELSE IF Head(text) = "\r"
         THEN <<"\n">> \o Universal(IF Len(text) > 1 /\ text[2] = "\n"
                                    THEN Tail(Tail(text)) ELSE Tail(text))
         ELSE <<Head(text)>> \o Universal(Tail(text))

\* csv.reader: the rows of a text.  state is the parser's position: at the start
\* of a field, in an unquoted field, in a quoted field, or after a quote inside
\* a quoted field.  An empty line gives no row to DictReader.
RECURSIVE Parse(_, _, _, _, _)
Parse(text, state, field, row, rows) ==
    IF text = <<>>
    THEN (IF state = "start" /\ row = <<>> THEN rows ELSE Append(rows, Append(row, field)))
    ELSE LET c == Head(text)
             rest == Tail(text)
             eol == c \in {"\r", "\n"}
         IN CASE state = "quoted" /\ c = "\"" -> Parse(rest, "quote", field, row, rows)
              [] state = "quoted" /\ c # "\"" -> Parse(rest, "quoted", Append(field, c), row, rows)
              [] state = "quote" /\ c = "\"" -> Parse(rest, "quoted", Append(field, c), row, rows)
              [] state = "start" /\ c = "\"" -> Parse(rest, "quoted", field, row, rows)
              [] state = "start" /\ eol /\ row = <<>> -> Parse(rest, "start", <<>>, <<>>, rows)
              [] state # "quoted" /\ c = "," -> Parse(rest, "start", <<>>, Append(row, field), rows)
              [] state # "quoted" /\ eol /\ ~(state = "start" /\ row = <<>>) ->
                    Parse(rest, "start", <<>>, <<>>, Append(rows, Append(row, field)))
              [] OTHER -> Parse(rest, "unquoted", Append(field, c), row, rows)

reader(text) == Parse(text, "start", <<>>, <<>>, <<>>)

\* csv.DictReader: the first row names the fields, every other row is a record
\* of them; a field the row is too short for is None
DictReader(text) ==
    LET rows == reader(text)
        fieldnames == rows[1]
        names == {fieldnames[k][1] : k \in 1..Len(fieldnames)}
        at(h) == CHOOSE k \in 1..Len(fieldnames) : fieldnames[k][1] = h
    IN [i \in 1..(Len(rows) - 1) |->
           [h \in names |-> IF at(h) <= Len(rows[i + 1]) THEN rows[i + 1][at(h)] ELSE <<Null>>]]

\* list(csv.DictReader(f)) of the test
ReadBack == DictReader(Universal(file))

\* ------------------------------------------------------------ specifications
\* no file at the output path
NoFile == <<>>

\* the sessions of two concurrent update calls, none of them open
Sessions == {"s1", "s2"}

Closed ==
    [pc |-> "closed", op |-> "", item_id |-> 0, fields |-> NoArgs, item |-> NoArgs, at |-> 0]

NoSessions == [s \in Sessions |-> Closed]

Init ==
    /\ engine \in Engines
    /\ store = {}
    /\ seq = 0
    /\ clock = 0
    /\ ops = 0
    /\ added = [only |-> TRUE, args |-> <<>>]
    /\ result = Call("init", "ok", 0, NoArgs, <<>>)
    /\ deleted = {}
    /\ file = NoFile
    /\ sess = NoSessions

Tick ==
    /\ clock < MaxClock
    /\ clock' = clock + 1
    /\ UNCHANGED <<engine, store, seq, ops, added, result, deleted, file, sess>>

Next ==
    \/ Tick
    \/ add_item
    \/ create_item
    \/ UpdateItem
    \/ UpdateItemEndpoint
    \/ DeleteItem
    \/ ListDefault

Spec == Init /\ [][Next]_vars

\* The table contents list_items is applied to: rows 1..n that add_item and
\* update_item can produce, differing in due_date, status and notes.
ListRow(id, due_date, status, notes) ==
    [Inserted([AllNull("a") EXCEPT !.due_date = due_date, !.status = status], id, 0, MaxClock)
        EXCEPT !.notes = notes]

ListRows(id) ==
    {ListRow(id, d, s, n) : d \in {Null, "a", "b"}, s \in {"", "a"}, n \in {"a", "b"}}

RECURSIVE ListStores(_)
ListStores(n) ==
    IF n = 0 THEN {{}}
    ELSE ListStores(n - 1) \cup {S \cup {r} : S \in {T \in ListStores(n - 1) : Cardinality(T) = n - 1}, r \in ListRows(n)}

InitList ==
    /\ engine \in Engines
    /\ store \in ListStores(MaxRows)
    /\ seq = IF engine = "postgresql" THEN Cardinality(store) ELSE 0
    /\ clock = MaxClock
    /\ ops = 0
    /\ added = [only |-> FALSE, args |-> <<>>]
    /\ result = Call("init", "ok", 0, NoArgs, <<>>)
    /\ deleted = {}
    /\ file = NoFile
    /\ sess = NoSessions

\* list_items only reads the table, so the calls are made on the table as drawn
NextList == result.op = "init" /\ ListItems

SpecList == InitList /\ [][NextList]_vars

\* The table contents export_csv is applied to: rows 1..n that add_item can
\* produce, differing in title, due_date and notes.
ExportTitles == {"a", "a,b"}

ExportNotes == {Null, "", "a\"b", "a\nb", "a\rb"}

ExportRow(id, title, due_date, notes) ==
    Inserted([AllNull(title) EXCEPT !.due_date = due_date, !.notes = notes], id, 0, 0)

ExportRows(id) ==
    {ExportRow(id, t, d, n) : t \in ExportTitles, d \in {Null, "a"}, n \in ExportNotes}

RECURSIVE ExportStores(_)
ExportStores(n) ==
    IF n = 0 THEN {{}}
    ELSE ExportStores(n - 1) \cup {S \cup {r} : S \in {T \in ExportStores(n - 1) : Cardinality(T) = n - 1}, r \in ExportRows(n)}

InitExport ==
    /\ engine \in Engines
    /\ store \in ExportStores(MaxRows)
    /\ seq = IF engine = "postgresql" THEN Cardinality(store) ELSE 0
    /\ clock = 0
    /\ ops = 0
    /\ added = [only |-> FALSE, args |-> <<>>]
    /\ result = Call("init", "ok", 0, NoArgs, <<>>)
    /\ deleted = {}
    /\ file = NoFile
    /\ sess = NoSessions

\* export_csv only reads the table, so the call is made on the table as drawn
NextExport == result.op = "init" /\ export_csv

SpecExport == InitExport /\ [][NextExport]_vars

\* ------------------------------------------- two update calls at the same time
\* Each call runs on a session of its own: session.get reads the row, the
\* setattr loop changes the copy the session holds, session.commit writes it.
\* The UPDATE a commit sends names the columns whose value in the copy differs
\* from the value the session read, and is applied to the row as it then is.
ConcInputs ==
    {Dict({"title"}, "a"), Dict({"title"}, "b"), Dict({"notes"}, "b"),
     [title |-> "b", status |-> "b"], [title |-> Null, status |-> "a"]}

ConcBodies == {Dict({"title"}, "a"), Dict({"title"}, "b"), Dict({"notes"}, Null)}

\* session.get(WorkItem, item_id) and the raise for a missing row
Read(s, op, item_id, fields) ==
    /\ sess[s].pc = "closed"
    /\ IF Get(item_id) = {}
       THEN /\ sess' = [sess EXCEPT ![s] = [Closed EXCEPT !.pc = "raised", !.op = op,
                                               !.item_id = item_id, !.fields = fields]]
            /\ result' = Call(op, "NotFound", item_id, fields, <<>>)
       ELSE /\ sess' = [sess EXCEPT ![s] = [Closed EXCEPT !.pc = "read", !.op = op,
                                               !.item_id = item_id, !.fields = fields,
                                               !.item = CHOOSE r \in Get(item_id) : TRUE]]
            /\ result' = result
    /\ UNCHANGED <<engine, store, seq, clock, ops, added, deleted, file>>

ReadUpdate == \E s \in Sessions, item_id \in ItemIds, fields \in ConcInputs :
    Read(s, "update_item", item_id, fields)

ReadPatch == \E s \in Sessions, item_id \in ItemIds, body \in ConcBodies :
    Read(s, "update_item_endpoint", item_id, body)

\* the copy of the row the session holds after the setattr loop
Copy(s) ==
    IF sess[s].op = "update_item"
    THEN (IF Applied(sess[s].fields) = {} THEN sess[s].item
          ELSE Updated(sess[s].item, sess[s].fields))
    ELSE Patched(sess[s].item, sess[s].fields)

\* the columns of the UPDATE: those whose value differs from the value read
Dirty(s) == {c \in Columns : Copy(s)[c] # sess[s].item[c]}

\* the row of the table after the UPDATE of a commit
Flushed(s, cur) == [c \in Columns |-> IF c \in Dirty(s) THEN Copy(s)[c] ELSE cur[c]]

\* the setattr loop and session.commit(); update_item commits only if
\* updates_made
CommitSession(s) ==
    /\ sess[s].pc = "read"
    /\ ops' = ops + 1
    /\ IF sess[s].op = "update_item" /\ Applied(sess[s].fields) = {}
       THEN /\ store' = store
            /\ sess' = [sess EXCEPT ![s].pc = "returned"]
       ELSE LET cur == CHOOSE r \in store : r.id = sess[s].item.id IN
            /\ store' = (store \ {cur}) \cup {Flushed(s, cur)}
            /\ sess' = [sess EXCEPT ![s].pc = "committed", ![s].at = ops + 1]
    /\ result' = Call(sess[s].op, "ok", sess[s].item_id, sess[s].fields, <<>>)
    /\ UNCHANGED <<engine, seq, clock, added, deleted, file>>

CommitAny == \E s \in Sessions : CommitSession(s)

\* the table the two calls meet: one row that add_item has made
InitConc ==
    /\ engine \in Engines
    /\ \E args \in AddInputs : store = {Inserted(args, 1, 0, 0)}
    /\ seq = IF engine = "postgresql" THEN 1 ELSE 0
    /\ clock = 0
    /\ ops = 0
    /\ added = [only |-> FALSE, args |-> <<>>]
    /\ result = Call("init", "ok", 0, NoArgs, <<>>)
    /\ deleted = {}
    /\ file = NoFile
    /\ sess = NoSessions

NextConc ==
    \/ Tick
    \/ ReadUpdate
    \/ ReadPatch
    \/ CommitAny

SpecConc == InitConc /\ [][NextConc]_vars

\* ------------------------------------------------------------------- claims
\* a step that is a call of the store's update_item which returned
UpdateReturned ==
    /\ ops' = ops + 1
    /\ result'.op = "update_item"
    /\ result'.outcome = "ok"

\* the keys of a call's arguments that carry a value other than None
NonNull(args) == {k \in DOMAIN args : k \in IntColumns \/ args[k] # Null}

\* On a returned update_item call the row addressed is replaced by a row that
\* has, in each column of cols, the value given if one was given and the old
\* value otherwise; every other row stays as it was.
UpdateFrame(cols) ==
    UpdateReturned =>
        \E item \in store :
            /\ item.id = result'.item_id
            /\ \E new \in store' :
                /\ store' = (store \ {item}) \cup {new}
                /\ \A k \in cols :
                      new[k] = IF k \in NonNull(result'.args) THEN result'.args[k] ELSE item[k]

\* C1 as stated: after update_item returns, every field given with a non-null
\* value has that value, every field of the record not given or given as null
\* has its old value, and no other record is changed.
C1_AsStated == [][UpdateFrame(Columns)]_vars

\* C1 amended: the same for every field other than updated_at; updated_at is the
\* current time if some field was applied and keeps its value otherwise.
UpdateStamp ==
    UpdateReturned =>
        \E item \in store, new \in store' :
            /\ item.id = result'.item_id
            /\ store' = (store \ {item}) \cup {new}
            /\ new.updated_at =
                  IF NonNull(result'.args) \cap Columns # {} THEN clock ELSE item.updated_at

C1_UpdateFrame == [][UpdateFrame(Columns \ {"updated_at"}) /\ UpdateStamp]_vars

\* an update given one null and one non-null field has returned, with a second
\* row in the table
C1_Witness ==
    /\ result.op = "update_item"
    /\ result.outcome = "ok"
    /\ result.args = [title |-> Null, status |-> "b"]
    /\ Cardinality(store) = 2
    /\ \E r \in store : r.id = result.item_id /\ r.status = "b" /\ r.title = "a"

\* C2: an update (store or API) of an id that is not in the table fails with
\* not-found and leaves every row, timestamps included, as it was.
C2_UpdateMissing ==
    [][(/\ ops' = ops + 1
        /\ result'.op \in {"update_item", "update_item_endpoint"}
        /\ result'.item_id \notin Ids)
       => (result'.outcome = "NotFound" /\ store' = store)]_vars

\* an update of a missing id was refused while the table holds a row
C2_Witness ==
    /\ result.op \in {"update_item", "update_item_endpoint"}
    /\ result.outcome = "NotFound"
    /\ NonNull(result.args) # {}
    /\ store # {}

\* C3: an update of an existing id that gives no non-null field is rejected
\* with a ValidationError.
C3_NoFieldsRejected ==
    (/\ result.op \in {"update_item", "update_item_endpoint"}
     /\ result.item_id \in Ids
     /\ NonNull(result.args) = {})
    => result.outcome = "ValidationError"

\* C4: every stored record has a non-empty title.
C4_TitleNonEmpty == \A r \in store : r.title # ""

\* a list_items call with no status filter has returned while only adds were made
ListedAfterAdds ==
    /\ added.only
    /\ result.op = "list_items"
    /\ result.outcome = "ok"
    /\ result.args.status = Null

\* the listed rows are one per add, the i-th add's row carrying, in every field
\* of fields, the value given to that add
ListedAsAdded(fields) ==
    /\ Len(result.rows) = Len(added.args)
    /\ \A i \in 1..Len(added.args) :
          \E j \in 1..Len(result.rows) :
              /\ result.rows[j].id = i
              /\ \A f \in fields : result.rows[j][f] = added.args[i][f]

\* C5 as stated: after n adds to an empty table the unfiltered list has n
\* records, one per add, each with every field exactly as given, nulls included.
C5_AsStated == ListedAfterAdds => ListedAsAdded(DataFields)

\* C5 amended: the same, except that an add given a null status is listed with
\* the default status "invited".
C5_AddThenList ==
    ListedAfterAdds =>
        /\ ListedAsAdded(DataFields \ {"status"})
        /\ \A i \in 1..Len(added.args) :
              \E j \in 1..Len(result.rows) :
                  /\ result.rows[j].id = i
                  /\ result.rows[j].status =
                        IF added.args[i].status = Null THEN "invited" ELSE added.args[i].status

\* two adds, one given every field and one given only a title, have been listed
C5_Witness ==
    /\ ListedAfterAdds
    /\ Len(added.args) = 2
    /\ Len(result.rows) = 2
    /\ \E i, j \in 1..2 : added.args[i].notes = "b" /\ added.args[j].notes = Null

\* a list_items call has returned its rows
Listed == result.op = "list_items" /\ result.outcome = "ok"

\* the rows returned, as a set
Returned == {result.rows[i] : i \in 1..Len(result.rows)}

\* C6 as stated: with a status filter given, the list is exactly the records
\* whose status equals it.
C6_AsStated ==
    (Listed /\ result.args.status # Null) =>
        /\ Returned = {r \in store : r.status = result.args.status}
        /\ Len(result.rows) = Cardinality(Returned)

\* C6 amended: with a non-empty status filter the list is exactly the records
\* whose status equals it; with the empty string as filter it is every record.
C6_StatusFilter ==
    (Listed /\ result.args.status # Null) =>
        /\ Returned = IF result.args.status = "" THEN store
                      ELSE {r \in store : r.status = result.args.status}
        /\ Len(result.rows) = Cardinality(Returned)

\* a filter kept one row and left out a row of another status
C6_Witness ==
    /\ Listed
    /\ result.args.status = "a"
    /\ Len(result.rows) = 1
    /\ \E r \in store : r.status = "" /\ r.title = "a"

\* C7: sorted by due_date, records without a due_date come after all records
\* with one, ascending and descending; the dated records are in ascending
\* (descending) order of date.
C7_NullsLast ==
    (Listed /\ result.args.sort_by = "due_date") =>
        \A i, j \in 1..Len(result.rows) :
            i < j =>
                LET a == result.rows[i].due_date
                    b == result.rows[j].due_date
                IN /\ ~(a = Null /\ b # Null)
                   /\ (a # Null /\ b # Null) =>
                        IF Upper(result.args.sort_order) = "DESC"
                        THEN Rank(a) >= Rank(b)
                        ELSE Rank(a) <= Rank(b)

\* the sort keys the specification allows
AllowList == {"title", "venue", "due_date", "reference_id", "status"}

\* C8: a sort_by outside the allow-list gives the order that due_date gives.
C8_FallBack ==
    (result.op = "list_items" /\ result.args.sort_by \notin AllowList) =>
        /\ result.outcome = "ok"
        /\ result.rows = OrderBy(Where(result.args.status), "due_date",
                                 Upper(result.args.sort_order) = "DESC")

\* C9: no update call changes the id of a record, and no two records in the
\* table have the same id.
C9_IdStable ==
    [][/\ Cardinality(Ids') = Cardinality(store')
       /\ (/\ ops' = ops + 1
           /\ result'.op \in {"update_item", "update_item_endpoint"})
          => Ids' = Ids]_vars

\* C10: every stored record has updated_at >= created_at.
C10_UpdatedAfterCreated == \A r \in store : r.updated_at >= r.created_at

\* C14: in every list result, whatever the sort key and the sort order, two
\* records with equal values in the sort column (both null included) appear in
\* ascending order of id.
C14_TieBreakById ==
    Listed =>
        \A i, j \in 1..Len(result.rows) :
            (/\ i < j
             /\ result.rows[i][OrderColumn(result.args.sort_by)]
                  = result.rows[j][OrderColumn(result.args.sort_by)])
            => result.rows[i].id < result.rows[j].id

\* a descending list by due_date has returned two records without a due_date
C14_Witness ==
    /\ Listed
    /\ result.args.sort_by = "due_date"
    /\ result.args.sort_order = "DESC"
    /\ Len(result.rows) = 2
    /\ result.rows[1].due_date = Null
    /\ result.rows[2].due_date = Null

\* C12: once a delete has removed a record, no later list result holds a
\* record with that id and every later update or delete addressed to that id
\* fails with not-found; a delete of an id that is not in the table fails with
\* not-found and changes nothing.
C12_DeletedForGood ==
    [][/\ (result'.op = "list_items" /\ result'.outcome = "ok")
          => \A i \in 1..Len(result'.rows) : result'.rows[i].id \notin deleted
       /\ (/\ ops' = ops + 1
           /\ result'.op \in {"update_item", "update_item_endpoint", "delete_item"}
           /\ result'.item_id \in deleted)
          => result'.outcome = "NotFound"
       /\ (/\ ops' = ops + 1
           /\ result'.op = "delete_item"
           /\ result'.item_id \notin Ids)
          => (result'.outcome = "NotFound" /\ store' = store)]_vars

Exported == result.op = "export_csv" /\ store # {}

\* C11: after export_csv on a non-empty table, the file read back has the field
\* names in declaration order as its header and exactly one row per stored
\* record, and every record is read back with the text of its value in every
\* field, the empty string for a null field.
C11_RoundTrip ==
    Exported =>
        /\ reader(Universal(file))[1] = HeaderCells
        /\ Len(ReadBack) = Cardinality(store)
        /\ \A r \in store :
              \E i \in 1..Len(ReadBack) :
                  \A h \in Columns : ReadBack[i][h] = Str(r[h], h)

\* the fields a call supplies: update_item takes None as not given, the
\* endpoint takes every field that was set in the body
Supplies(s) ==
    IF sess[s].op = "update_item" THEN Applied(sess[s].fields)
    ELSE DOMAIN sess[s].fields

BothCommitted ==
    /\ \A s \in Sessions : sess[s].pc = "committed"
    /\ \A s, t \in Sessions : sess[s].item_id = sess[t].item_id

\* C13: when two concurrent updates of the same existing id have both
\* committed, every field that an update supplied has the value of the update
\* that committed last among those that supplied it; so a field supplied by
\* one update only has that update's value.
C13_LastWriteWins ==
    BothCommitted =>
        \A row \in store :
            (\A s \in Sessions : sess[s].item_id = row.id) =>
                \A f \in DataFields :
                    LET sup == {s \in Sessions : f \in Supplies(s)}
                        last == CHOOSE s \in sup : \A t \in sup : sess[t].at <= sess[s].at
                    IN sup # {} => row[f] = sess[last].fields[f]
====
